---- MODULE Spec2Model ----
(***************************************************************************)
(* Diff-position calculation, comment assembly, Gemini key rotation and    *)
(* the retry loop of the two review workflows                              *)
(*   .github/workflows/gemini-pr-review.py   (script = "pr")               *)
(*   .github/workflows/gemini-review.py      (script = "review")           *)
(***************************************************************************)
EXTENDS Integers, Sequences, FiniteSets, TLC

VARIABLES
    script,          \* which of the two workflow scripts runs
    file_patch,      \* PatchedFile: sequence of hunks, each given by len(list(hunk))
    calc,            \* last call of improved_calculate_github_position
    ai_reviews,      \* argument of the last process_batch_ai_reviews call
    batch_pc,        \* "pending" until process_batch_ai_reviews has returned
    comments,        \* comments_for_github it returned
    environ,         \* names of the key environment variables that are set
    gemini_key_manager,  \* the GeminiKeyManager instance (its fields)
    key_call,        \* last call made on the key manager and what it returned
    exhaustion_warned,   \* rotate_key has logged "All API keys are rate limited"
    pc,              \* position in get_ai_response_with_structured_output
    max_retries,     \* its max_retries argument
    attempt,         \* the loop variable of "for attempt in range(1, max_retries + 1)"
    client_api_key,  \* the key last given to Client.configure
    requests,        \* the generate_content invocations made for the prompt
    sleeps,          \* the time.sleep durations of the retry loop
    last_outcome,    \* how the last generate_content invocation ended
    result,          \* the list returned
    structured_data, \* argument of the last process_structured_output call
    output,          \* what that call did: the list it returned, or that it raised
    review_data,     \* the decoded reviews/gemini-pr-review.json of the previous run
    prompt_path,     \* patched_file.path of the file a prompt is built for
    prompt_pc,       \* "pending" until create_batch_prompt has returned or raised
    previous_file_comments,   \* what get_previous_file_comments returned for it
    previous_review_context,  \* the previous-review section of the prompt
    now,             \* time.time(), in thirds of a second
    LAST_GEMINI_REQUEST_TIME, \* the module global of the throttle
    invocations,     \* the times at which generate_content was invoked
    credentials,     \* what the module initialization finds in the environment
    main_pc,         \* position of the run in __main__, main() and analyze_code
    files_list,      \* the files analyze_code loops over
    file_index,      \* the file of files_list being processed (1-based)
    all_comments_for_pr,      \* the list analyze_code accumulates
    review_file,     \* content of the review record on disk, "missing" if none
    post_pc,         \* position in create_review_and_summary_comment
    comments_for_gh_review,   \* its argument
    post_index,      \* the comment the fallback loop is at (1-based)
    github_calls     \* the posting calls made on the pull request, with their outcome

vars == <<script, file_patch, calc, batch_pc, ai_reviews, comments,
          environ, gemini_key_manager, key_call, exhaustion_warned,
          pc, max_retries, attempt, client_api_key, requests, sleeps,
          last_outcome, result,
          structured_data, output,
          review_data, prompt_path, prompt_pc,
          previous_file_comments, previous_review_context,
          now, LAST_GEMINI_REQUEST_TIME, invocations,
          credentials, main_pc, files_list, file_index, all_comments_for_pr,
          review_file,
          post_pc, comments_for_gh_review, post_index, github_calls>>

retryVars == <<pc, max_retries, attempt, client_api_key, requests, sleeps,
               last_outcome, result>>

posVars == <<file_patch, calc, batch_pc, ai_reviews, comments>>
keyVars == <<environ, gemini_key_manager, key_call, exhaustion_warned>>
outVars == <<structured_data, output>>
prevVars == <<review_data, prompt_path, prompt_pc,
              previous_file_comments, previous_review_context>>
throttleVars == <<now, LAST_GEMINI_REQUEST_TIME, invocations>>
runVars == <<credentials, main_pc, files_list, file_index, all_comments_for_pr,
             review_file>>
postVars == <<post_pc, comments_for_gh_review, post_index, github_calls>>
extVars == <<outVars, prevVars, throttleVars, runVars, postVars>>

----------------------------------------------------------------------------
(* Bounds of the model *)

MaxHunks == 3
MaxHunkLen == 5
MaxBatchHunks == 2
MaxBatchHunkLen == 2
MaxItems == 2
MaxRetries == 3
MaxReviews == 2
MaxStored == 2
MaxFiles == 2
MaxTime == 14
MaxInvocations == 3
MaxPosted == 2

Scripts == {"pr", "review"}

----------------------------------------------------------------------------
(* Python values *)

IntV(n) == [t |-> "int", v |-> n]
StrV == [t |-> "str", v |-> 0]

\* results of improved_calculate_github_position
PyNone == [kind |-> "None", pos |-> 0]
InvalidPositionDict == [kind |-> "invalidPosition", pos |-> 0]
PyInt(p) == [kind |-> "int", pos |-> p]

RECURSIVE SumPreceding_NoHeader(_, _)
\* mutant: the "position += 1" for the header of a preceding hunk is forgotten
SumPreceding_NoHeader(hunks_in_file, hunk_idx) ==
    IF hunk_idx = 0 THEN 0
    ELSE SumPreceding_NoHeader(hunks_in_file, hunk_idx - 1) + hunks_in_file[hunk_idx]

\* mutant: the content lines of the preceding hunks are forgotten
SumPreceding_HeadersOnly(hunks_in_file, hunk_idx) == hunk_idx

RECURSIVE SumPreceding(_, _)
\* the loop "for i in range(hunk_idx): position += 1; position += len(hunk i)"
SumPreceding(hunks_in_file, hunk_idx) ==
    IF hunk_idx = 0 THEN 0
    ELSE SumPreceding(hunks_in_file, hunk_idx - 1) + 1 + hunks_in_file[hunk_idx]

\* the value returned for a line number outside the hunk content
OutOfRangeLineResult(scr) ==
    IF scr = "pr" THEN InvalidPositionDict ELSE PyNone

\* mutant: an out-of-bounds hunk index is clamped to the nearest hunk
improved_calculate_github_position_ClampsHunk(scr, hunks_in_file, hunk_idx, line_num_in_hunk) ==
    IF hunk_idx.t # "int" \/ line_num_in_hunk.t # "int" THEN PyNone
    ELSE LET h == IF hunk_idx.v < 0 THEN 0
                  ELSE IF hunk_idx.v >= Len(hunks_in_file) THEN Len(hunks_in_file) - 1
                  ELSE hunk_idx.v
         IN  IF ~(1 <= line_num_in_hunk.v /\ line_num_in_hunk.v <= hunks_in_file[h + 1])
             THEN OutOfRangeLineResult(scr)
             ELSE PyInt(SumPreceding(hunks_in_file, h) + 1 + (line_num_in_hunk.v - 1))

\* hunk_idx and line_num_in_hunk are tagged Python values; hunks are 0-based
\* in the code and 1-based in the sequence file_patch
improved_calculate_github_position(scr, hunks_in_file, hunk_idx, line_num_in_hunk) ==
    IF hunk_idx.t # "int" THEN PyNone                 \* TypeError, except Exception
    ELSE IF ~(0 <= hunk_idx.v /\ hunk_idx.v < Len(hunks_in_file)) THEN PyNone
    ELSE IF line_num_in_hunk.t # "int" THEN PyNone    \* TypeError, except Exception
    ELSE IF ~(1 <= line_num_in_hunk.v
              /\ line_num_in_hunk.v <= hunks_in_file[hunk_idx.v + 1])
         THEN OutOfRangeLineResult(scr)
    ELSE PyInt(SumPreceding(hunks_in_file, hunk_idx.v) + 1 + (line_num_in_hunk.v - 1))

----------------------------------------------------------------------------
(* process_batch_ai_reviews *)

DISCLAIMER == "Note: I couldn't precisely position this comment in the diff"

RequiredKeys == {"hunkIndex", "lineNumber", "reviewComment", "confidence"}

ConfidenceLabel(confidence) == <<"My Confidence", confidence>>

\* one iteration of the loop: the sequence of comments (empty or one) the item adds
CommentsOfItem(scr, hunks_in_file, review_detail) ==
    IF ~(RequiredKeys \subseteq DOMAIN review_detail) THEN <<>>      \* KeyError
    ELSE
    LET hunk_idx_from_ai == review_detail["hunkIndex"]
        line_num_in_hunk_content == review_detail["lineNumber"]
        comment_text == review_detail["reviewComment"]
        confidence == review_detail["confidence"]
    IN  IF hunk_idx_from_ai.t # "int" THEN <<>>                     \* TypeError
        ELSE IF ~(0 <= hunk_idx_from_ai.v /\ hunk_idx_from_ai.v < Len(hunks_in_file))
             THEN <<>>
        ELSE
        LET github_pos_result ==
                improved_calculate_github_position(scr, hunks_in_file,
                    hunk_idx_from_ai, line_num_in_hunk_content)
        IN  IF github_pos_result = PyNone THEN <<>>
            ELSE IF scr = "pr" /\ github_pos_result = InvalidPositionDict
            THEN << [body |-> <<DISCLAIMER, ConfidenceLabel(confidence), comment_text>>,
                     position |-> 1,
                     confidence_raw |-> confidence,
                     invalidPosition |-> TRUE] >>
            ELSE << [body |-> <<ConfidenceLabel(confidence), comment_text>>,
                     position |-> github_pos_result.pos,
                     confidence_raw |-> confidence] >>

RECURSIVE process_batch_ai_reviews_AbortOnBadItem(_, _, _)
\* mutant: no except clause around the loop body, the first item that fails
\* ends the loop
process_batch_ai_reviews_AbortOnBadItem(scr, hunks_in_file, reviews) ==
    IF reviews = <<>> THEN <<>>
    ELSE IF \/ ~(RequiredKeys \subseteq DOMAIN Head(reviews))
            \/ Head(reviews)["hunkIndex"].t # "int"
            \/ Head(reviews)["lineNumber"].t # "int"
    THEN <<>>
    ELSE CommentsOfItem(scr, hunks_in_file, Head(reviews))
         \o process_batch_ai_reviews_AbortOnBadItem(scr, hunks_in_file, Tail(reviews))

RECURSIVE process_batch_ai_reviews(_, _, _)
process_batch_ai_reviews(scr, hunks_in_file, reviews) ==
    IF reviews = <<>> THEN <<>>
    ELSE CommentsOfItem(scr, hunks_in_file, Head(reviews))
         \o process_batch_ai_reviews(scr, hunks_in_file, Tail(reviews))

----------------------------------------------------------------------------
(* Inputs of the position calculator *)

FilePatches == UNION { [1..k -> 1..MaxHunkLen] : k \in 1..MaxHunks }

HunkIndexInputs == {IntV(h) : h \in -1..MaxHunks} \cup {StrV}
LineNumberInputs == {IntV(n) : n \in 0..(MaxHunkLen + 1)} \cup {StrV}

NoCall == [called |-> FALSE, hunk_idx |-> IntV(0), line_num |-> IntV(0), result |-> PyNone]

(* Inputs of the comment assembler: smaller patches, whole batches of items *)

BatchFilePatches == UNION { [1..k -> 1..MaxBatchHunkLen] : k \in 1..MaxBatchHunks }

WellFormedItems ==
    { [hunkIndex |-> IntV(h), lineNumber |-> IntV(n),
       reviewComment |-> "c", confidence |-> "High"] :
        h \in -1..MaxBatchHunks, n \in 0..(MaxBatchHunkLen + 1) }

MalformedItems ==
    { [hunkIndex |-> IntV(0), lineNumber |-> IntV(1), reviewComment |-> "c"],
      [hunkIndex |-> StrV, lineNumber |-> IntV(1), reviewComment |-> "c", confidence |-> "Low"],
      [hunkIndex |-> IntV(0), lineNumber |-> StrV, reviewComment |-> "c", confidence |-> "Low"] }

Items == WellFormedItems \cup MalformedItems

Batches == UNION { [1..k -> Items] : k \in 0..MaxItems }

----------------------------------------------------------------------------
(* The position calculator called on a parsed file patch *)

\* no key manager is involved in the position arithmetic
KeyIdle ==
    /\ environ = {}
    /\ gemini_key_manager = "unused"
    /\ key_call = "none"
    /\ exhaustion_warned = FALSE

\* no backend request is in progress
RetryIdle ==
    /\ pc = "idle"
    /\ max_retries = 0
    /\ attempt = 0
    /\ client_api_key = <<>>
    /\ requests = <<>>
    /\ sleeps = <<>>
    /\ last_outcome = "none"
    /\ result = <<>>

\* process_structured_output has not been called
NoOutput == [called |-> FALSE, raised |-> FALSE, value |-> <<>>]

\* no payload is being validated
OutIdle ==
    /\ structured_data = "none"
    /\ output = NoOutput

\* load_previous_review_data found no file, or one without "review_comments"
NoReviewData == [has_review_comments |-> FALSE, review_comments |-> <<>>]

\* no prompt is being built
PrevIdle ==
    /\ review_data = NoReviewData
    /\ prompt_path = "none"
    /\ prompt_pc = "none"
    /\ previous_file_comments = <<>>
    /\ previous_review_context = <<>>

\* the throttle is not exercised
ThrottleIdle ==
    /\ now = 0
    /\ LAST_GEMINI_REQUEST_TIME = 0
    /\ invocations = <<>>

\* the run has written no review record
NoReviewFile ==
    [written |-> FALSE, review_comments |-> <<>>, rate_limited |-> FALSE, error |-> FALSE]

\* no run of main() is in progress
RunIdle ==
    /\ credentials = "none"
    /\ main_pc = "none"
    /\ files_list = <<>>
    /\ file_index = 0
    /\ all_comments_for_pr = <<>>
    /\ review_file = NoReviewFile

\* create_review_and_summary_comment is not running
PostIdle ==
    /\ post_pc = "none"
    /\ comments_for_gh_review = <<>>
    /\ post_index = 0
    /\ github_calls = <<>>

ExtIdle == OutIdle /\ PrevIdle /\ ThrottleIdle /\ RunIdle /\ PostIdle

InitPos ==
    /\ script \in Scripts
    /\ file_patch \in FilePatches
    /\ calc = NoCall
    /\ batch_pc = "none"
    /\ ai_reviews = <<>>
    /\ comments = <<>>
    /\ KeyIdle
    /\ RetryIdle
    /\ ExtIdle

Calculate ==
    \E h \in HunkIndexInputs, n \in LineNumberInputs :
        /\ calc' = [called |-> TRUE, hunk_idx |-> h, line_num |-> n,
                    result |-> improved_calculate_github_position(script, file_patch, h, n)]
        /\ UNCHANGED <<extVars, script, file_patch, batch_pc, ai_reviews, comments, keyVars, retryVars>>

NextPos == Calculate

SpecPos == InitPos /\ [][NextPos]_vars

----------------------------------------------------------------------------
(* The comment assembler: analyze_code hands the validated items of one    *)
(* file to process_batch_ai_reviews, once per file                         *)

InitBatch ==
    /\ script \in Scripts
    /\ file_patch \in BatchFilePatches
    /\ calc = NoCall
    /\ batch_pc = "pending"
    /\ ai_reviews = <<>>
    /\ comments = <<>>
    /\ KeyIdle
    /\ RetryIdle
    /\ ExtIdle

ProcessBatch ==
    /\ batch_pc = "pending"
    /\ \E reviews \in Batches :
        /\ ai_reviews' = reviews
        /\ comments' = process_batch_ai_reviews(script, file_patch, reviews)
    /\ batch_pc' = "returned"
    /\ UNCHANGED <<extVars, script, file_patch, calc, keyVars, retryVars>>

NextBatch == ProcessBatch

SpecBatch == InitBatch /\ [][NextBatch]_vars

----------------------------------------------------------------------------
(* GeminiKeyManager *)

PRIMARY == "GEMINI_API_KEY"
FALLBACK == "GEMINI_FALLBACK_API_KEY"
\* for i in range(1, 5): key_name = f"GEMINI_ALT_{i}"
AltKeyNames == <<"GEMINI_ALT_1", "GEMINI_ALT_2", "GEMINI_ALT_3", "GEMINI_ALT_4">>

KeyEnvNames == {FALLBACK} \cup {AltKeyNames[i] : i \in DOMAIN AltKeyNames}

\* os.environ.get(name): the secret stored under a name that is set, the
\* empty value <<>> otherwise
EnvGet(env, name) ==
    IF name \in env THEN <<"secret of", name>> ELSE <<>>

Truthy(value) == value # <<>>

RECURSIVE CollectAltKeys(_, _)
\* the loop of __init__ over GEMINI_ALT_1..GEMINI_ALT_4, in insertion order
CollectAltKeys(env, i) ==
    IF i = 0 THEN <<>>
    ELSE CollectAltKeys(env, i - 1)
         \o (IF Truthy(EnvGet(env, AltKeyNames[i])) THEN <<AltKeyNames[i]>> ELSE <<>>)

\* GeminiKeyManager.__init__ (GEMINI_API_KEY is set, else the constructor raises)
KeyManagerInit(scr, env) ==
    [ primary_key |-> <<"secret of", PRIMARY>>,
      alt_keys |-> IF scr = "pr"
                   THEN { AltKeyNames[i] : i \in { j \in DOMAIN AltKeyNames :
                                                   Truthy(EnvGet(env, AltKeyNames[j])) } }
                   ELSE {},
      fallback_key |-> IF scr = "review" THEN EnvGet(env, FALLBACK) ELSE <<>>,
      current_key |-> <<"secret of", PRIMARY>>,
      current_key_name |-> PRIMARY,
      rate_limited_keys |-> {},
      encountered_rate_limiting |-> FALSE,
      all_keys_rate_limited |-> FALSE,
      used_fallback_key |-> FALSE,
      rotation_order |-> IF scr = "pr"
                         THEN <<PRIMARY>> \o CollectAltKeys(env, Len(AltKeyNames))
                         ELSE IF Truthy(EnvGet(env, FALLBACK))
                              THEN <<PRIMARY, FALLBACK>> ELSE <<PRIMARY>> ]

get_key_by_name(scr, km, key_name) ==
    IF key_name = PRIMARY THEN km.primary_key
    ELSE IF scr = "pr"
         THEN (IF key_name \in km.alt_keys THEN <<"secret of", key_name>> ELSE <<>>)
         ELSE (IF key_name = FALLBACK THEN km.fallback_key ELSE <<>>)

\* mutant: the key value is not switched together with the name
ActivateKey_NameOnly(km, next_key_name, next_key) ==
    [km EXCEPT !.current_key_name = next_key_name,
               !.used_fallback_key = TRUE]

\* mutant: a successful rotation starts a fresh rate-limited set
ActivateKey_ClearsSet(km, next_key_name, next_key) ==
    [km EXCEPT !.current_key = next_key,
               !.current_key_name = next_key_name,
               !.rate_limited_keys = {},
               !.used_fallback_key = TRUE]

\* "Found a valid key, update current key ... return True"
ActivateKey(km, next_key_name, next_key) ==
    [km EXCEPT !.current_key = next_key,
               !.current_key_name = next_key_name,
               !.used_fallback_key = TRUE]

\* mutant: the rate-limited set is not cleared on exhaustion
ResetToPrimary_KeepSet(scr, km) ==
    [km EXCEPT !.current_key = km.primary_key,
               !.current_key_name = PRIMARY,
               !.all_keys_rate_limited = TRUE,
               !.used_fallback_key = IF scr = "review" THEN FALSE ELSE @]

\* "All API keys are rate limited. Resetting to primary key. ... return False"
ResetToPrimary(scr, km) ==
    [km EXCEPT !.current_key = km.primary_key,
               !.current_key_name = PRIMARY,
               !.all_keys_rate_limited = TRUE,
               !.rate_limited_keys = {},
               !.used_fallback_key = IF scr = "review" THEN FALSE ELSE @]

IndexOf(seq, x) == CHOOSE i \in DOMAIN seq : seq[i] = x

\* mutant: the scan walks the rotation order backwards
NextIndex_Backwards(current_index, n) ==
    IF current_index = 1 THEN n ELSE current_index - 1

\* next_index = (current_index + 1) % len(rotation_order), on 1-based indices
NextIndex(current_index, n) == (current_index % n) + 1

RECURSIVE RotateScan(_, _, _)
\* the while loop of rotate_key in gemini-pr-review.py
RotateScan(km, current_index, tried_count) ==
    IF ~(tried_count < Len(km.rotation_order))
    THEN [km |-> ResetToPrimary("pr", km), ret |-> FALSE]
    ELSE
    LET next_index == NextIndex(current_index, Len(km.rotation_order))
        next_key_name == km.rotation_order[next_index]
        next_key == get_key_by_name("pr", km, next_key_name)
    IN  IF next_key_name \in km.rate_limited_keys
        THEN RotateScan(km, next_index, tried_count + 1)
        ELSE IF ~Truthy(next_key)
        THEN RotateScan([km EXCEPT !.rate_limited_keys = @ \cup {next_key_name}],
                        next_index, tried_count + 1)
        ELSE [km |-> ActivateKey(km, next_key_name, next_key), ret |-> TRUE]

\* GeminiKeyManager.rotate_key: the manager afterwards and the value returned
rotate_key(scr, km) ==
    IF scr = "pr"
    THEN LET marked == [km EXCEPT !.rate_limited_keys = @ \cup {km.current_key_name}]
         IN  RotateScan(marked, IndexOf(km.rotation_order, km.current_key_name), 0)
    ELSE LET marked == [km EXCEPT !.rate_limited_keys = @ \cup {km.current_key_name},
                                  !.encountered_rate_limiting = TRUE]
         IN  IF Truthy(km.fallback_key) /\ FALLBACK \notin marked.rate_limited_keys
             THEN [km |-> ActivateKey(marked, FALLBACK, km.fallback_key), ret |-> TRUE]
             ELSE [km |-> ResetToPrimary("review", marked), ret |-> FALSE]

(* str(error).lower() and the substring tests of is_rate_limit_error; *)
(* error texts are sequences of characters                            *)

ToLowerChar(c) ==
    CASE c = "Q" -> "q" [] c = "R" -> "r" [] c = "E" -> "e" [] c = "L" -> "l"
      [] c = "T" -> "t" [] c = "I" -> "i" [] c = "S" -> "s" [] c = "U" -> "u"
      [] OTHER -> c

Lower(str) == [i \in DOMAIN str |-> ToLowerChar(str[i])]

Contains(str, sub) ==
    \E i \in 1..(Len(str) - Len(sub) + 1) : SubSeq(str, i, i + Len(sub) - 1) = sub

RateLimitMarkers ==
    { <<"4", "2", "9">>,
      <<"q", "u", "o", "t", "a">>,
      <<"r", "a", "t", "e", " ", "l", "i", "m", "i", "t">>,
      <<"r", "e", "s", "o", "u", "r", "c", "e", "e", "x", "h", "a", "u", "s", "t", "e", "d">> }

IsRateLimitText(error) ==
    \E marker \in RateLimitMarkers : Contains(Lower(error), marker)

\* mutant: the flag is set for every classified error
is_rate_limit_error_AlwaysMarks(km, error) ==
    [km |-> [km EXCEPT !.encountered_rate_limiting = TRUE],
     ret |-> IsRateLimitText(error)]

\* GeminiKeyManager.is_rate_limit_error: the manager afterwards and the value returned
is_rate_limit_error(km, error) ==
    [km |-> IF IsRateLimitText(error)
            THEN [km EXCEPT !.encountered_rate_limiting = TRUE] ELSE km,
     ret |-> IsRateLimitText(error)]

\* texts of the exceptions the backend raises
RateLimitErrors ==
    { <<"H", "T", "T", "P", " ", "4", "2", "9">>,
      <<"Q", "u", "o", "t", "a", " ", "e", "x", "c", "e", "e", "d", "e", "d">>,
      <<"R", "a", "t", "e", " ", "L", "i", "m", "i", "t">>,
      <<"R", "e", "s", "o", "u", "r", "c", "e", "E", "x", "h", "a", "u", "s", "t", "e", "d">> }

OtherErrors ==
    { <<"H", "T", "T", "P", " ", "5", "0", "0">>,
      <<"t", "i", "m", "e", "o", "u", "t">>,
      <<"r", "a", "t", "e", "l", "i", "m", "i", "t">> }

Errors == RateLimitErrors \cup OtherErrors

----------------------------------------------------------------------------
(* The key manager driven by any sequence of its two operations *)

PosIdle ==
    /\ file_patch = <<1>>
    /\ calc = NoCall
    /\ batch_pc = "none"
    /\ ai_reviews = <<>>
    /\ comments = <<>>

InitKey ==
    /\ script \in Scripts
    /\ environ \in SUBSET KeyEnvNames
    /\ gemini_key_manager = KeyManagerInit(script, environ)
    /\ key_call = [op |-> "__init__", ret |-> TRUE]
    /\ exhaustion_warned = FALSE
    /\ PosIdle
    /\ RetryIdle
    /\ ExtIdle

IsRateLimitError ==
    \E error \in Errors :
        LET r == is_rate_limit_error(gemini_key_manager, error)
        IN  /\ gemini_key_manager' = r.km
            /\ key_call' = [op |-> "is_rate_limit_error", ret |-> r.ret]
            /\ UNCHANGED <<extVars, script, environ, exhaustion_warned, posVars, retryVars>>

RotateKey ==
    LET r == rotate_key(script, gemini_key_manager)
    IN  /\ gemini_key_manager' = r.km
        /\ key_call' = [op |-> "rotate_key", ret |-> r.ret]
        /\ exhaustion_warned' = (exhaustion_warned \/ ~r.ret)
        /\ UNCHANGED <<extVars, script, environ, posVars, retryVars>>

NextKey == IsRateLimitError \/ RotateKey

SpecKey == InitKey /\ [][NextKey]_vars

----------------------------------------------------------------------------
(* process_structured_output *)

\* Python values of a decoded payload
DictV(f) == [t |-> "dict", v |-> f]
ListV(l) == [t |-> "list", v |-> l]
NumStrV(n) == [t |-> "numstr", v |-> n]      \* a string of digits, e.g. "2"
FloatV(n) == [t |-> "float", v |-> n]        \* a float with integral part n
NoneV == [t |-> "none", v |-> 0]
InfV == [t |-> "inf", v |-> 0]               \* float('inf'): json.loads of 1e400 or Infinity

\* int(x) succeeds on these and raises ValueError or TypeError on the others,
\* except on an infinite float, where it raises OverflowError
IntConvertible(x) == x.t \in {"int", "numstr", "float"}
IntOverflows(x) == x.t = "inf"
ToInt(x) == IntV(x.v)

Confidences == {"High", "Medium", "Low"}

\* one iteration of the loop over data["reviews"]: the items (none or one) it keeps
ValidatedItem(review_item) ==
    IF review_item.t # "dict" THEN <<>>
    ELSE IF ~(RequiredKeys \subseteq DOMAIN review_item.v) THEN <<>>
    ELSE IF ~(IntConvertible(review_item.v["hunkIndex"])
              /\ IntConvertible(review_item.v["lineNumber"])) THEN <<>>
    ELSE << [review_item.v EXCEPT
               !["hunkIndex"] = ToInt(@),
               !["lineNumber"] = ToInt(@),
               !["confidence"] = IF @ \in Confidences THEN @ ELSE "Low"] >>

RECURSIVE ValidatedItems(_)
ValidatedItems(items) ==
    IF items = <<>> THEN <<>>
    ELSE ValidatedItem(Head(items)) \o ValidatedItems(Tail(items))

\* the iteration leaves the function with an OverflowError, which
\* "except (ValueError, TypeError)" does not catch: hunkIndex is converted
\* first, lineNumber only if that conversion succeeded
ItemRaises(review_item) ==
    /\ review_item.t = "dict"
    /\ RequiredKeys \subseteq DOMAIN review_item.v
    /\ \/ IntOverflows(review_item.v["hunkIndex"])
       \/ /\ IntConvertible(review_item.v["hunkIndex"])
          /\ IntOverflows(review_item.v["lineNumber"])

\* isinstance(data, dict) and "reviews" in data and isinstance(data["reviews"], list)
HasValidStructure(data) ==
    /\ data.t = "dict"
    /\ "reviews" \in DOMAIN data.v
    /\ data.v["reviews"].t = "list"

\* the call does not return: some iteration of its loop raises
process_structured_output_raises(data) ==
    /\ HasValidStructure(data)
    /\ \E i \in DOMAIN data.v["reviews"].v : ItemRaises(data.v["reviews"].v[i])

\* the list the call returns, when it returns
process_structured_output(data) ==
    IF ~HasValidStructure(data) THEN <<>>
    ELSE ValidatedItems(data.v["reviews"].v)

\* a call of the function: raised, or returned value
CallProcessStructuredOutput(data) ==
    IF process_structured_output_raises(data)
    THEN [raised |-> TRUE, value |-> <<>>]
    ELSE [raised |-> FALSE, value |-> process_structured_output(data)]

----------------------------------------------------------------------------
(* process_structured_output called on a decoded payload *)

\* values the model puts under hunkIndex and lineNumber
HunkIndexValues == {IntV(0), NumStrV(1), FloatV(2), StrV, InfV}
LineNumberValues == {IntV(1), NoneV, InfV}
ConfidenceValues == {"High", "Critical"}

FullItems ==
    { DictV([hunkIndex |-> h, lineNumber |-> n, reviewComment |-> "c", confidence |-> c]) :
        h \in HunkIndexValues, n \in LineNumberValues, c \in ConfidenceValues }

\* GoodItem without one of its keys
ItemsLackingAKey ==
    { DictV([k \in RequiredKeys \ {missing} |->
               [hunkIndex |-> IntV(0), lineNumber |-> IntV(1),
                reviewComment |-> "c", confidence |-> "High"][k]]) :
        missing \in RequiredKeys }

ReviewItems == FullItems \cup ItemsLackingAKey \cup {StrV}

ReviewLists == UNION { [1..k -> ReviewItems] : k \in 0..MaxReviews }

StructuredData ==
    { DictV([reviews |-> ListV(l)]) : l \in ReviewLists }
    \cup { ListV(<<>>), DictV([comments |-> ListV(<<>>)]), DictV([reviews |-> StrV]) }

InitOutput ==
    /\ script \in Scripts
    /\ structured_data \in StructuredData
    /\ output = NoOutput
    /\ PosIdle
    /\ KeyIdle
    /\ RetryIdle
    /\ PrevIdle
    /\ ThrottleIdle
    /\ RunIdle
    /\ PostIdle

ProcessStructuredOutput ==
    /\ ~output.called
    /\ output' = [called |-> TRUE,
                  raised |-> CallProcessStructuredOutput(structured_data).raised,
                  value |-> CallProcessStructuredOutput(structured_data).value]
    /\ UNCHANGED <<script, structured_data, posVars, keyVars, retryVars,
                   prevVars, throttleVars, runVars, postVars>>

NextOutput == ProcessStructuredOutput

SpecOutput == InitOutput /\ [][NextOutput]_vars

----------------------------------------------------------------------------
(* The previous review: get_previous_file_comments and the section of the  *)
(* prompt create_batch_prompt builds from it                               *)

\* a comment text is a sequence of words; null is the JSON null
TextV(words) == [t |-> "text", v |-> words]
NoText == [t |-> "none", v |-> <<>>]

ADDRESSED == "[ADDRESSED]"
IGNORED == "[IGNORED]"
RESOLUTION == "**Resolution**:"

\* marker in comment_text
InText(marker, words) == \E i \in DOMAIN words : words[i] = marker

\* str.find: index of the first occurrence (the marker occurs)
FirstIndexOf(marker, words) ==
    CHOOSE i \in DOMAIN words :
        /\ words[i] = marker
        /\ \A j \in 1..(i - 1) : words[j] # marker

\* words[i:] with a 1-based i
From(words, i) == SubSeq(words, i, Len(words))

\* the loop also leaves out the comments marked [ADDRESSED]
KeepsPrevious_SkipsAddressed(scr, comment, file_path) ==
    /\ comment.file_path = file_path
    /\ ~InText(ADDRESSED, comment.comment_text_md.v)
    /\ scr = "review" => ~InText(IGNORED, comment.comment_text_md.v)

\* the condition of the if in the loop of get_previous_file_comments
KeepsPrevious(scr, comment, file_path) ==
    /\ comment.file_path = file_path
    /\ scr = "review" => ~InText(IGNORED, comment.comment_text_md.v)

\* gemini-review.py evaluates "[IGNORED]" not in comment_text for a comment
\* of the file: a TypeError when the stored text is null
PreviousCommentRaises(scr, comment, file_path) ==
    /\ scr = "review"
    /\ comment.file_path = file_path
    /\ comment.comment_text_md.t = "none"

RECURSIVE SelectPrevious(_, _, _)
SelectPrevious(scr, stored, file_path) ==
    IF stored = <<>> THEN <<>>
    ELSE (IF KeepsPrevious(scr, Head(stored), file_path) THEN <<Head(stored)>> ELSE <<>>)
         \o SelectPrevious(scr, Tail(stored), file_path)

get_previous_file_comments(scr, data, file_path) ==
    IF ~data.has_review_comments THEN [raised |-> FALSE, value |-> <<>>]
    ELSE IF \E i \in DOMAIN data.review_comments :
                PreviousCommentRaises(scr, data.review_comments[i], file_path)
    THEN [raised |-> TRUE, value |-> <<>>]
    ELSE [raised |-> FALSE,
          value |-> SelectPrevious(scr, data.review_comments, file_path)]

\* the resolution note create_batch_prompt extracts from an addressed comment
ResolutionNote(words) ==
    LET resolution_text == From(words, FirstIndexOf(ADDRESSED, words))
    IN  IF InText(RESOLUTION, resolution_text)
        THEN [present |-> TRUE,
              note |-> From(resolution_text, FirstIndexOf(RESOLUTION, resolution_text) + 1)]
        ELSE [present |-> FALSE, note |-> <<>>]

\* the lines added to previous_review_context for one comment
ContextEntry(comment) ==
    LET comment_text == comment.comment_text_md.v
        is_addressed == InText(ADDRESSED, comment_text)
    IN  [ status_marker |-> IF is_addressed THEN "ADDRESSED" ELSE "PENDING",
          file |-> comment.file_path,
          content |-> comment_text,
          resolution |-> IF is_addressed THEN ResolutionNote(comment_text)
                         ELSE [present |-> FALSE, note |-> <<>>] ]

\* the previous-review part of create_batch_prompt: it raises a TypeError on
\* "[ADDRESSED]" in comment_text when a returned comment has a null text
create_batch_prompt(scr, data, file_path) ==
    LET previous == get_previous_file_comments(scr, data, file_path)
    IN  IF previous.raised
           \/ \E i \in DOMAIN previous.value : previous.value[i].comment_text_md.t = "none"
        THEN [raised |-> TRUE, comments |-> <<>>, context |-> <<>>]
        ELSE [raised |-> FALSE,
              comments |-> previous.value,
              context |-> [i \in DOMAIN previous.value |-> ContextEntry(previous.value[i])]]

Paths == {"a.py", "b.py"}

\* texts of comments as save_review_results_to_json stores them, some edited
\* afterwards with the markers
CommentTexts ==
    { <<"issue">>,
      <<"issue", ADDRESSED>>,
      <<"issue", ADDRESSED, RESOLUTION, "fixed">>,
      <<"issue", IGNORED>>,
      <<RESOLUTION, "no", ADDRESSED, RESOLUTION, "fixed", IGNORED>> }

StoredComments ==
    { [file_path |-> p, comment_text_md |-> TextV(t)] : p \in Paths, t \in CommentTexts }

StoredReviewData ==
    {NoReviewData}
    \cup { [has_review_comments |-> TRUE, review_comments |-> cs] :
              cs \in UNION { [1..k -> StoredComments] : k \in 0..MaxStored } }

InitPrev ==
    /\ script \in Scripts
    /\ review_data \in StoredReviewData
    /\ prompt_path \in Paths
    /\ prompt_pc = "pending"
    /\ previous_file_comments = <<>>
    /\ previous_review_context = <<>>
    /\ PosIdle
    /\ KeyIdle
    /\ RetryIdle
    /\ OutIdle
    /\ ThrottleIdle
    /\ RunIdle
    /\ PostIdle

CreateBatchPrompt ==
    /\ prompt_pc = "pending"
    /\ LET built == create_batch_prompt(script, review_data, prompt_path)
       IN  /\ prompt_pc' = IF built.raised THEN "raised" ELSE "built"
           /\ previous_file_comments' = built.comments
           /\ previous_review_context' = built.context
    /\ UNCHANGED <<script, review_data, prompt_path, posVars, keyVars, retryVars,
                   outVars, throttleVars, runVars, postVars>>

NextPrev == CreateBatchPrompt

SpecPrev == InitPrev /\ [][NextPrev]_vars

----------------------------------------------------------------------------
(* get_ai_response_with_structured_output *)

GoodItem ==
    DictV([hunkIndex |-> IntV(0), lineNumber |-> IntV(1),
           reviewComment |-> "c", confidence |-> "High"])

\* payloads the backend answers with
WellStructuredPayloads ==
    { DictV([reviews |-> ListV(<<>>)]),
      DictV([reviews |-> ListV(<<GoodItem>>)]) }

BadStructurePayloads ==
    { ListV(<<GoodItem>>),                       \* not an object
      DictV([comments |-> ListV(<<GoodItem>>)]), \* no "reviews" key
      DictV([reviews |-> GoodItem]) }            \* "reviews" is not a list

\* a reviews list with an item whose hunkIndex is the number 1e400
OverflowPayloads ==
    { DictV([reviews |-> ListV(<<GoodItem,
                DictV([hunkIndex |-> InfV, lineNumber |-> IntV(1),
                       reviewComment |-> "c", confidence |-> "High"])>>)]) }

Payloads == WellStructuredPayloads \cup BadStructurePayloads \cup OverflowPayloads

\* str(e) of the OverflowError int() raises
OverflowErrorText ==
    <<"c", "a", "n", "n", "o", "t", " ", "c", "o", "n", "v", "e", "r", "t", " ",
      "f", "l", "o", "a", "t", " ", "i", "n", "f", "i", "n", "i", "t", "y", " ",
      "t", "o", " ", "i", "n", "t", "e", "g", "e", "r">>

RECURSIVE Pow2(_)
Pow2(n) == IF n = 0 THEN 1 ELSE 2 * Pow2(n - 1)

\* mutant: "continue" restarts the same attempt (a while loop whose counter
\* is not advanced)
LoopContinue_SameAttempt(sleep) ==
    /\ pc' = "configure"
    /\ attempt' = attempt
    /\ sleeps' = sleeps \o sleep
    /\ result' = result

\* "continue" in the for loop: the next attempt starts, or the loop is over
\* and the function returns [] after it
LoopContinue(sleep) ==
    IF attempt < max_retries
    THEN /\ pc' = "configure"
         /\ attempt' = attempt + 1
         /\ sleeps' = sleeps \o sleep
         /\ result' = result
    ELSE /\ pc' = "returned"
         /\ attempt' = attempt
         /\ sleeps' = sleeps
         /\ result' = <<>>

\* "if attempt < max_retries: time.sleep(d); continue" followed by "return []"
RetryOrGiveUp(duration) == LoopContinue(<<duration>>)

Return(value) ==
    /\ pc' = "returned"
    /\ attempt' = attempt
    /\ sleeps' = sleeps
    /\ result' = value

Invoked ==
    requests' = Append(requests, [attempt |-> attempt, api_key |-> client_api_key])

\* initialize_gemini_client has configured the client with the first key and
\* no backend request has been made
ClientInitialized ==
    /\ pc = "idle"
    /\ max_retries = 0
    /\ attempt = 0
    /\ client_api_key = gemini_key_manager.current_key
    /\ requests = <<>>
    /\ sleeps = <<>>
    /\ last_outcome = "none"
    /\ result = <<>>

InitRetry ==
    /\ script \in Scripts
    /\ environ \in SUBSET KeyEnvNames
    /\ gemini_key_manager = KeyManagerInit(script, environ)
    /\ key_call = [op |-> "__init__", ret |-> TRUE]
    /\ exhaustion_warned = FALSE
    /\ PosIdle
    /\ ClientInitialized
    /\ ExtIdle

\* the call: "for attempt in range(1, max_retries + 1)" starts or is empty
Call ==
    /\ pc = "idle"
    /\ \E n \in 0..MaxRetries :
        /\ max_retries' = n
        /\ IF n >= 1
           THEN pc' = "configure" /\ attempt' = 1
           ELSE pc' = "returned" /\ attempt' = 0
    /\ result' = <<>>
    /\ UNCHANGED <<extVars, script, environ, posVars, keyVars,
                   client_api_key, requests, sleeps, last_outcome>>

\* mutant: the loop relies on the configuration made at start-up
Configure_NotRepeated ==
    /\ pc = "configure"
    /\ client_api_key' = client_api_key
    /\ pc' = "generate"
    /\ UNCHANGED <<extVars, script, environ, posVars, keyVars,
                   max_retries, attempt, requests, sleeps, last_outcome, result>>

\* Client.configure(api_key=gemini_key_manager.get_current_key())
Configure ==
    /\ pc = "configure"
    /\ client_api_key' = gemini_key_manager.current_key
    /\ pc' = "generate"
    /\ UNCHANGED <<extVars, script, environ, posVars, keyVars,
                   max_retries, attempt, requests, sleeps, last_outcome, result>>

\* mutant: after a successful rotation the same attempt is repeated
ExceptException_RotationKeepsAttempt(error) ==
    LET classified == is_rate_limit_error(gemini_key_manager, error)
        rotated == rotate_key(script, classified.km)
    IN  IF classified.ret
        THEN /\ gemini_key_manager' = rotated.km
             /\ key_call' = [op |-> "rotate_key", ret |-> rotated.ret]
             /\ exhaustion_warned' = (exhaustion_warned \/ ~rotated.ret)
             /\ IF rotated.ret
                THEN /\ last_outcome' = "rate_limit_rotated"
                     /\ pc' = "configure"
                     /\ attempt' = attempt
                     /\ sleeps' = sleeps
                     /\ result' = result
                ELSE /\ last_outcome' = "rate_limit_exhausted"
                     /\ RetryOrGiveUp(5 * attempt)
        ELSE /\ gemini_key_manager' = classified.km
             /\ key_call' = [op |-> "is_rate_limit_error", ret |-> FALSE]
             /\ UNCHANGED exhaustion_warned
             /\ last_outcome' = "other_error"
             /\ RetryOrGiveUp(5 * attempt)

\* the "except Exception" handler of the loop body, for an exception whose
\* text is error
ExceptException(error) ==
    LET classified == is_rate_limit_error(gemini_key_manager, error)
        rotated == rotate_key(script, classified.km)
    IN  IF classified.ret
        THEN /\ gemini_key_manager' = rotated.km
             /\ key_call' = [op |-> "rotate_key", ret |-> rotated.ret]
             /\ exhaustion_warned' = (exhaustion_warned \/ ~rotated.ret)
             /\ IF rotated.ret
                THEN /\ last_outcome' = "rate_limit_rotated"
                     /\ LoopContinue(<<>>)
                ELSE /\ last_outcome' = "rate_limit_exhausted"
                     /\ RetryOrGiveUp(5 * attempt)
        ELSE /\ gemini_key_manager' = classified.km
             /\ key_call' = [op |-> "is_rate_limit_error", ret |-> FALSE]
             /\ UNCHANGED exhaustion_warned
             /\ last_outcome' = "other_error"
             /\ RetryOrGiveUp(5 * attempt)

\* "return process_structured_output(data)" inside the try: the list is
\* returned, or the OverflowError of the call reaches "except Exception"
ProcessAndReturn(data) ==
    IF CallProcessStructuredOutput(data).raised
    THEN ExceptException(OverflowErrorText)
    ELSE /\ last_outcome' = IF HasValidStructure(data) THEN "output" ELSE "bad_structure"
         /\ Return(CallProcessStructuredOutput(data).value)
         /\ UNCHANGED <<gemini_key_manager, key_call, exhaustion_warned>>

\* generate_content returns a response without parts
GenerateEmpty ==
    /\ pc = "generate"
    /\ Invoked
    /\ last_outcome' = "empty"
    /\ RetryOrGiveUp(Pow2(attempt) * 2)
    /\ UNCHANGED <<extVars, script, environ, posVars, keyVars, max_retries, client_api_key>>

\* generate_content returns a parsed payload (function_call.parsed or parsed)
GenerateStructured ==
    /\ pc = "generate"
    /\ Invoked
    /\ \E data \in Payloads : ProcessAndReturn(data)
    /\ UNCHANGED <<extVars, script, environ, posVars, max_retries, client_api_key>>

\* generate_content returns text: json.loads raises JSONDecodeError or decodes
GenerateText ==
    /\ pc = "generate"
    /\ Invoked
    /\ \/ /\ last_outcome' = "json_error"
          /\ RetryOrGiveUp(Pow2(attempt))
          /\ UNCHANGED <<gemini_key_manager, key_call, exhaustion_warned>>
       \/ \E data \in Payloads : ProcessAndReturn(data)
    /\ UNCHANGED <<extVars, script, environ, posVars, max_retries, client_api_key>>

\* generate_content raises: the "except Exception" handler
GenerateRaises ==
    /\ pc = "generate"
    /\ Invoked
    /\ \E error \in Errors : ExceptException(error)
    /\ UNCHANGED <<extVars, script, environ, posVars, max_retries, client_api_key>>

NextRetry ==
    \/ Call
    \/ Configure
    \/ GenerateEmpty
    \/ GenerateStructured
    \/ GenerateText
    \/ GenerateRaises

SpecRetry == InitRetry /\ [][NextRetry]_vars

\* the interpreter keeps executing the function: a call that can take a step
\* takes it (every sleep and every backend call returns)
SpecRetryFair == SpecRetry /\ WF_vars(NextRetry)

----------------------------------------------------------------------------
(* The request throttle; time is counted in thirds of a second *)

GEMINI_RPM_LIMIT == 45

\* 60.0 / GEMINI_RPM_LIMIT seconds
GEMINI_REQUEST_INTERVAL_SECONDS == (60 * 3) \div GEMINI_RPM_LIMIT

\* mutant: the interval is computed as GEMINI_RPM_LIMIT / 60.0
enforce_gemini_rate_limits_InvertedInterval(current_time, last, overshoot) ==
    LET time_since_last == current_time - last
        interval == (GEMINI_RPM_LIMIT * 3) \div 60
        after == IF time_since_last < interval
                 THEN current_time + (interval - time_since_last) + overshoot
                 ELSE current_time
    IN  [now |-> after, last |-> after]

\* enforce_gemini_rate_limits() entered at current_time: the clock and the
\* global when it returns; time.sleep returns overshoot later than asked
enforce_gemini_rate_limits(current_time, last, overshoot) ==
    LET time_since_last == current_time - last
        after == IF time_since_last < GEMINI_REQUEST_INTERVAL_SECONDS
                 THEN current_time + (GEMINI_REQUEST_INTERVAL_SECONDS - time_since_last)
                      + overshoot
                 ELSE current_time
    IN  [now |-> after, last |-> after]

\* the process starts long after the epoch: time.time() exceeds the initial
\* LAST_GEMINI_REQUEST_TIME = 0 by more than the interval
InitThrottle ==
    /\ script \in Scripts
    /\ now \in GEMINI_REQUEST_INTERVAL_SECONDS..(GEMINI_REQUEST_INTERVAL_SECONDS + 1)
    /\ LAST_GEMINI_REQUEST_TIME = 0
    /\ invocations = <<>>
    /\ PosIdle
    /\ KeyIdle
    /\ RetryIdle
    /\ OutIdle
    /\ PrevIdle
    /\ RunIdle
    /\ PostIdle

\* the call in get_ai_response_with_retry, once per file
EnforceGeminiRateLimits ==
    /\ \E overshoot \in 0..1 :
        LET e == enforce_gemini_rate_limits(now, LAST_GEMINI_REQUEST_TIME, overshoot)
        IN  /\ e.now <= MaxTime
            /\ now' = e.now
            /\ LAST_GEMINI_REQUEST_TIME' = e.last
    /\ UNCHANGED <<script, invocations, posVars, keyVars, retryVars, outVars,
                   prevVars, runVars, postVars>>

\* an attempt of the retry loop: enforce_gemini_rate_limits(), then
\* gemini_model.generate_content(prompt) is invoked
InvokeGenerateContent ==
    /\ Len(invocations) < MaxInvocations
    /\ \E overshoot \in 0..1 :
        LET e == enforce_gemini_rate_limits(now, LAST_GEMINI_REQUEST_TIME, overshoot)
        IN  /\ e.now <= MaxTime
            /\ now' = e.now
            /\ LAST_GEMINI_REQUEST_TIME' = e.last
            /\ invocations' = Append(invocations, e.now)
    /\ UNCHANGED <<script, posVars, keyVars, retryVars, outVars, prevVars, runVars,
                   postVars>>

\* time passes: the backend answers, the retry loop sleeps, a prompt is built
Elapse ==
    /\ now < MaxTime
    /\ now' = now + 1
    /\ UNCHANGED <<script, LAST_GEMINI_REQUEST_TIME, invocations, posVars, keyVars,
                   retryVars, outVars, prevVars, runVars, postVars>>

NextThrottle == EnforceGeminiRateLimits \/ InvokeGenerateContent \/ Elapse

SpecThrottle == InitThrottle /\ [][NextThrottle]_vars

----------------------------------------------------------------------------
(* create_review_and_summary_comment on a pull request *)

\* all(k in c for k in ["body", "path", "position"]); the positions, paths
\* and bodies are the integers and texts process_batch_ai_reviews produced
IsValidReviewComment(c) == {"body", "path", "position"} \subseteq DOMAIN c

\* the list handed to pr.create_review
valid_review_comments(cs) ==
    LET valid == SelectSeq(cs, IsValidReviewComment)
    IN  [i \in DOMAIN valid |->
            [body |-> valid[i].body, path |-> valid[i].path, position |-> valid[i].position]]

\* how a call on the pull request can end
PostOutcomes == {"ok", "GithubException", "Exception"}

\* create_review_and_summary_comment(pr_details, cs, path) is entered
StartPosting(cs) ==
    /\ post_pc' = "start"
    /\ comments_for_gh_review' = cs
    /\ post_index' = 0
    /\ github_calls' = <<>>

postUnchanged ==
    <<script, posVars, keyVars, retryVars, outVars, prevVars, throttleVars,
      credentials, files_list, file_index, all_comments_for_pr, review_file>>

\* "if num_suggestions > 0: ... if valid_review_comments:" a review is
\* created only when a valid comment is left
FilterValidComments ==
    /\ post_pc = "start"
    /\ post_pc' = IF valid_review_comments(comments_for_gh_review) # <<>>
                  THEN "create_review" ELSE "summary"
    /\ UNCHANGED <<postUnchanged, main_pc, comments_for_gh_review, post_index, github_calls>>

\* "except GithubException" starts the fallback loop, "except Exception"
\* only logs
AfterCreateReview(outcome) ==
    IF outcome = "GithubException" THEN "individual" ELSE "summary"

\* pr.create_review(body, event="COMMENT", comments=valid_review_comments)
CreateReview ==
    /\ post_pc = "create_review"
    /\ \E outcome \in PostOutcomes :
        /\ github_calls' = Append(github_calls,
               [api |-> "create_review",
                comments |-> valid_review_comments(comments_for_gh_review),
                outcome |-> outcome])
        /\ post_pc' = AfterCreateReview(outcome)
        /\ post_index' = IF AfterCreateReview(outcome) = "individual" THEN 1 ELSE post_index
    /\ UNCHANGED <<postUnchanged, main_pc, comments_for_gh_review>>

\* the fallback loop: pr.create_issue_comment for one suggestion, inside
\* its own try
CreateIssueComment ==
    /\ post_pc = "individual"
    /\ \E outcome \in PostOutcomes :
        github_calls' = Append(github_calls,
            [api |-> "create_issue_comment",
             comments |-> <<valid_review_comments(comments_for_gh_review)[post_index]>>,
             outcome |-> outcome])
    /\ post_index' = post_index + 1
    /\ post_pc' = IF post_index < Len(valid_review_comments(comments_for_gh_review))
                  THEN "individual" ELSE "summary"
    /\ UNCHANGED <<postUnchanged, main_pc, comments_for_gh_review>>

\* pr.create_issue_comment(summary_body), inside its own try; the function
\* returns, and main() with it
CreateSummaryComment ==
    /\ post_pc = "summary"
    /\ \E outcome \in PostOutcomes :
        github_calls' = Append(github_calls,
            [api |-> "create_issue_comment_summary", comments |-> <<>>,
             outcome |-> outcome])
    /\ post_pc' = "done"
    /\ main_pc' = IF main_pc = "post" THEN "returned" ELSE main_pc
    /\ UNCHANGED <<postUnchanged, comments_for_gh_review, post_index>>

\* comments as analyze_code collects them, and dictionaries lacking a key
PostComments ==
    { [body |-> <<"c1">>, path |-> "a.py", position |-> 1, confidence_raw |-> "High"],
      [body |-> <<"c2">>, path |-> "b.py", position |-> 2, confidence_raw |-> "Low"],
      [body |-> <<"c3">>, path |-> "a.py"],
      [path |-> "b.py", position |-> 3] }

PostCommentLists == UNION { [1..k -> PostComments] : k \in 0..MaxPosted }

InitPost ==
    /\ script \in Scripts
    /\ post_pc = "start"
    /\ comments_for_gh_review \in PostCommentLists
    /\ post_index = 0
    /\ github_calls = <<>>
    /\ PosIdle
    /\ KeyIdle
    /\ RetryIdle
    /\ OutIdle
    /\ PrevIdle
    /\ ThrottleIdle
    /\ RunIdle

NextPost ==
    \/ FilterValidComments
    \/ CreateReview
    \/ CreateIssueComment
    \/ CreateSummaryComment

SpecPost == InitPost /\ [][NextPost]_vars

----------------------------------------------------------------------------
(* A run of the script: __main__, main() and analyze_code, which sends one *)
(* prompt per file through the retry loop above                            *)

\* get_ai_response_with_retry(prompt, max_retries=3)
DefaultMaxRetries == 3

\* mutant: the record is flagged as soon as any rate limit was met
Save_FlagsAnyRateLimit(saved) ==
    review_file' = [written |-> TRUE, review_comments |-> saved,
                    rate_limited |-> gemini_key_manager.encountered_rate_limiting,
                    error |-> FALSE]

\* save_review_results_to_json(pr_details, comments, path);
\* metadata "rate_limited" is gemini_key_manager.all_keys_rate_limited
Save(saved) ==
    review_file' = [written |-> TRUE, review_comments |-> saved,
                    rate_limited |-> gemini_key_manager.all_keys_rate_limited,
                    error |-> FALSE]

\* json.dump({"metadata": {"error": str(e)}, "review_comments": []}, f): the
\* metadata has no "rate_limited" entry
SaveMinimal ==
    review_file' = [written |-> TRUE, review_comments |-> <<>>,
                    rate_limited |-> FALSE, error |-> TRUE]

\* what the try block at module level finds: a GitHub credential and
\* GEMINI_API_KEY, no GitHub credential (authenticate raises ValueError), no
\* GEMINI_API_KEY (GeminiKeyManager() raises ValueError), or
\* GEMINI_TEST_MODE = 1 (both clients stay None)
CredentialStates == {"ok", "no_github_credential", "no_gemini_key", "test_mode"}

\* gemini_key_manager = None
NoKeyManager == [constructed |-> FALSE]
NoKeyCall == [op |-> "none", ret |-> FALSE]

\* how get_pr_details (get_review_context in gemini-review.py) can end: it
\* returns, raises (the event file cannot be read or lacks a key) or calls
\* sys.exit(1)
PrDetailsOutcomes == {"ok", "raises", "sys_exit"}

\* the ways a run ends: main() returned, main() logged a ValueError or an
\* Exception and returned, SystemExit left the process, __main__ called
\* sys.exit(1) after its handler
EndStates == {"returned", "caught_ValueError", "caught_Exception", "SystemExit", "exit_1"}

\* "path": patched_file.path of the comment records of one file
WithPath(path, file_comments) ==
    [i \in DOMAIN file_comments |-> [path |-> path] @@ file_comments[i]]

\* the files of the patch set: a path and the hunks of the file
RunFiles ==
    { [path |-> "a.py", hunks |-> <<1>>],
      [path |-> "b.py", hunks |-> <<1>>],
      [path |-> "a.py", hunks |-> <<>>] }

RunFileLists == UNION { [1..k -> RunFiles] : k \in 1..MaxFiles }

\* the previous review on disk: none, or one whose comment on b.py has a
\* null text
RunReviewData ==
    { NoReviewData,
      [has_review_comments |-> TRUE,
       review_comments |-> <<[file_path |-> "b.py", comment_text_md |-> NoText]>>] }

RunEnvirons == { {}, {AltKeyNames[1]} }

\* the process starts: nothing is initialized yet
InitRun ==
    /\ script \in Scripts
    /\ environ \in RunEnvirons
    /\ credentials \in CredentialStates
    /\ gemini_key_manager = NoKeyManager
    /\ key_call = NoKeyCall
    /\ exhaustion_warned = FALSE
    /\ PosIdle
    /\ RetryIdle
    /\ OutIdle
    /\ review_data \in RunReviewData
    /\ prompt_path = "none"
    /\ prompt_pc = "none"
    /\ previous_file_comments = <<>>
    /\ previous_review_context = <<>>
    /\ ThrottleIdle
    /\ main_pc = "init"
    /\ files_list = <<>>
    /\ file_index = 0
    /\ all_comments_for_pr = <<>>
    /\ review_file = NoReviewFile
    /\ PostIdle

\* the variables no step of main() outside the retry loop changes
mainUnchanged ==
    <<script, posVars, keyVars, outVars, review_data, throttleVars, credentials>>

\* the try block at module level: authenticate() and
\* initialize_gemini_client(), which constructs the key manager and
\* configures the client with the primary key; sys.exit(1) when either raises
ModuleInit ==
    /\ main_pc = "init"
    /\ IF credentials = "ok"
       THEN /\ gemini_key_manager' = KeyManagerInit(script, environ)
            /\ key_call' = [op |-> "__init__", ret |-> TRUE]
            /\ client_api_key' = KeyManagerInit(script, environ).current_key
            /\ main_pc' = "start"
       ELSE /\ main_pc' = IF credentials = "test_mode" THEN "start" ELSE "init_exit_1"
            /\ UNCHANGED <<gemini_key_manager, key_call, client_api_key>>
    /\ UNCHANGED <<script, posVars, environ, exhaustion_warned, outVars, prevVars,
                   throttleVars, credentials, files_list, file_index,
                   all_comments_for_pr, review_file, postVars,
                   pc, max_retries, attempt, requests, sleeps, last_outcome, result>>

\* main() is entered: the clients are there, or "if not gh or not
\* gemini_client_module" raises the ValueError that reaches the handler of
\* __main__
StartMain ==
    /\ main_pc = "start"
    /\ main_pc' = IF credentials = "ok" THEN "get_pr_details" ELSE "handler"
    /\ UNCHANGED <<mainUnchanged, postVars, retryVars, prompt_path, prompt_pc,
                   previous_file_comments, previous_review_context,
                   files_list, file_index, all_comments_for_pr, review_file>>

\* pr_details = get_pr_details(), inside the try of main()
GetPrDetails ==
    /\ main_pc = "get_pr_details"
    /\ \E outcome \in PrDetailsOutcomes :
          main_pc' = CASE outcome = "ok" -> "compare_sha"
                       [] outcome = "raises" -> "caught_Exception"
                       [] outcome = "sys_exit" -> "SystemExit"
    /\ UNCHANGED <<mainUnchanged, postVars, retryVars, prompt_path, prompt_pc,
                   previous_file_comments, previous_review_context,
                   files_list, file_index, all_comments_for_pr, review_file>>

\* head_sha == comparison_sha_for_diff: nothing new, an empty record is
\* saved and create_review_and_summary_comment is called with no comment
CompareSha ==
    /\ main_pc = "compare_sha"
    /\ \/ Save(<<>>) /\ main_pc' = "post" /\ StartPosting(<<>>)
       \/ UNCHANGED <<review_file, postVars>> /\ main_pc' = "get_diff"
    /\ UNCHANGED <<mainUnchanged, retryVars, prompt_path, prompt_pc,
                   previous_file_comments, previous_review_context,
                   files_list, file_index, all_comments_for_pr>>

\* diff_text = get_diff(...): empty, or a text
GetDiff ==
    /\ main_pc = "get_diff"
    /\ \/ Save(<<>>) /\ main_pc' = "post" /\ StartPosting(<<>>)
       \/ UNCHANGED <<review_file, postVars>> /\ main_pc' = "parse"
    /\ UNCHANGED <<mainUnchanged, retryVars, prompt_path, prompt_pc,
                   previous_file_comments, previous_review_context,
                   files_list, file_index, all_comments_for_pr>>

\* mutant: the ValueError is raised without saving the empty record first
ParseDiff_RaisesWithoutSaving ==
    /\ main_pc = "parse"
    /\ \/ UNCHANGED review_file /\ main_pc' = "caught_ValueError"
       \/ UNCHANGED review_file /\ main_pc' = "filter"
    /\ UNCHANGED <<mainUnchanged, postVars, retryVars, prompt_path, prompt_pc,
                   previous_file_comments, previous_review_context,
                   files_list, file_index, all_comments_for_pr>>

\* parse_diff_to_patchset: no patch set, the record is saved and the
\* ValueError raised is logged by main()
ParseDiff ==
    /\ main_pc = "parse"
    /\ \/ Save(<<>>) /\ main_pc' = "caught_ValueError"
       \/ UNCHANGED review_file /\ main_pc' = "filter"
    /\ UNCHANGED <<mainUnchanged, postVars, retryVars, prompt_path, prompt_pc,
                   previous_file_comments, previous_review_context,
                   files_list, file_index, all_comments_for_pr>>

\* the exclusion filter: nothing is left, or analyze_code starts on the files
FilterFiles ==
    /\ main_pc = "filter"
    /\ \/ /\ Save(<<>>)
          /\ main_pc' = "post"
          /\ StartPosting(<<>>)
          /\ UNCHANGED <<files_list, file_index>>
       \/ /\ \E files \in RunFileLists : files_list' = files
          /\ file_index' = 1
          /\ main_pc' = "analyze"
          /\ UNCHANGED <<review_file, postVars>>
    /\ UNCHANGED <<mainUnchanged, retryVars, prompt_path, prompt_pc,
                   previous_file_comments, previous_review_context,
                   all_comments_for_pr>>

InvalidPathOrNoHunks(patched_file) ==
    \/ patched_file.path = "/dev/null"
    \/ patched_file.hunks = <<>>

\* analyze_code: "continue" for a file without a valid path or without hunks
AnalyzeSkipFile ==
    /\ main_pc = "analyze"
    /\ file_index <= Len(files_list)
    /\ InvalidPathOrNoHunks(files_list[file_index])
    /\ file_index' = file_index + 1
    /\ UNCHANGED <<mainUnchanged, postVars, retryVars, prompt_path, prompt_pc,
                   previous_file_comments, previous_review_context,
                   main_pc, files_list, all_comments_for_pr, review_file>>

\* analyze_code: create_batch_prompt for the file, then
\* get_ai_response_with_retry enters the retry loop; an exception of
\* create_batch_prompt leaves analyze_code and is logged by main()
AnalyzeFile ==
    /\ main_pc = "analyze"
    /\ file_index <= Len(files_list)
    /\ ~InvalidPathOrNoHunks(files_list[file_index])
    /\ LET built == create_batch_prompt(script, review_data, files_list[file_index].path)
       IN  /\ prompt_path' = files_list[file_index].path
           /\ previous_file_comments' = built.comments
           /\ previous_review_context' = built.context
           /\ IF built.raised
              THEN /\ prompt_pc' = "raised"
                   /\ main_pc' = "caught_Exception"
                   /\ UNCHANGED retryVars
              ELSE /\ prompt_pc' = "built"
                   /\ main_pc' = "ai"
                   /\ pc' = "configure"
                   /\ max_retries' = DefaultMaxRetries
                   /\ attempt' = 1
                   /\ requests' = <<>>
                   /\ sleeps' = <<>>
                   /\ result' = <<>>
                   /\ UNCHANGED <<client_api_key, last_outcome>>
    /\ UNCHANGED <<mainUnchanged, postVars, files_list, file_index, all_comments_for_pr, review_file>>

\* mutant: an empty list for a file is treated as a failure of the analysis
CollectFile_RaisesOnEmpty ==
    /\ main_pc = "ai"
    /\ pc = "returned"
    /\ all_comments_for_pr' =
          all_comments_for_pr
          \o (IF result # <<>>
              THEN WithPath(files_list[file_index].path,
                       process_batch_ai_reviews(script, files_list[file_index].hunks, result))
              ELSE <<>>)
    /\ file_index' = IF result # <<>> THEN file_index + 1 ELSE file_index
    /\ main_pc' = IF result # <<>> THEN "analyze" ELSE "caught_Exception"
    /\ pc' = "idle"
    /\ max_retries' = 0
    /\ attempt' = 0
    /\ requests' = <<>>
    /\ sleeps' = <<>>
    /\ result' = <<>>
    /\ UNCHANGED <<mainUnchanged, postVars, client_api_key, last_outcome, prompt_path, prompt_pc,
                   previous_file_comments, previous_review_context,
                   files_list, review_file>>

\* analyze_code: the list returned for the file goes through
\* process_batch_ai_reviews when it is not empty, and the loop goes on
CollectFile ==
    /\ main_pc = "ai"
    /\ pc = "returned"
    /\ all_comments_for_pr' =
          all_comments_for_pr
          \o (IF result # <<>>
              THEN WithPath(files_list[file_index].path,
                       process_batch_ai_reviews(script, files_list[file_index].hunks, result))
              ELSE <<>>)
    /\ file_index' = file_index + 1
    /\ main_pc' = "analyze"
    /\ pc' = "idle"
    /\ max_retries' = 0
    /\ attempt' = 0
    /\ requests' = <<>>
    /\ sleeps' = <<>>
    /\ result' = <<>>
    /\ UNCHANGED <<mainUnchanged, postVars, client_api_key, last_outcome, prompt_path, prompt_pc,
                   previous_file_comments, previous_review_context,
                   files_list, review_file>>

\* analyze_code returned: the comments are saved and handed to
\* create_review_and_summary_comment
AnalyzeDone ==
    /\ main_pc = "analyze"
    /\ file_index > Len(files_list)
    /\ Save(all_comments_for_pr)
    /\ main_pc' = "post"
    /\ StartPosting(all_comments_for_pr)
    /\ UNCHANGED <<mainUnchanged, retryVars, prompt_path, prompt_pc,
                   previous_file_comments, previous_review_context,
                   files_list, file_index, all_comments_for_pr>>

\* the "except Exception" handler of __main__, reached without a GitHub
\* client: get_pr_details cannot return, it raises (a minimal record is
\* written, then sys.exit(1)) or calls sys.exit(1) itself (no record)
Handler ==
    /\ main_pc = "handler"
    /\ \E outcome \in PrDetailsOutcomes \ {"ok"} :
          CASE outcome = "raises" -> SaveMinimal /\ main_pc' = "exit_1"
            [] outcome = "sys_exit" -> UNCHANGED review_file /\ main_pc' = "SystemExit"
    /\ UNCHANGED <<mainUnchanged, postVars, retryVars, prompt_path, prompt_pc,
                   previous_file_comments, previous_review_context,
                   files_list, file_index, all_comments_for_pr>>

NextRun ==
    \/ ModuleInit
    \/ StartMain
    \/ GetPrDetails
    \/ CompareSha
    \/ GetDiff
    \/ ParseDiff
    \/ FilterFiles
    \/ AnalyzeSkipFile
    \/ AnalyzeFile
    \/ Configure
    \/ GenerateEmpty
    \/ GenerateStructured
    \/ GenerateText
    \/ GenerateRaises
    \/ CollectFile
    \/ AnalyzeDone
    \/ FilterValidComments
    \/ CreateReview
    \/ CreateIssueComment
    \/ CreateSummaryComment
    \/ Handler

SpecRun == InitRun /\ [][NextRun]_vars

----------------------------------------------------------------------------
(* Properties of the position calculator *)

ValidCoordinates(hunks, h, n) ==
    /\ 0 <= h /\ h < Len(hunks)
    /\ 1 <= n /\ n <= hunks[h + 1]

CalledWithValidCoordinates ==
    /\ calc.called
    /\ calc.hunk_idx.t = "int" /\ calc.line_num.t = "int"
    /\ ValidCoordinates(file_patch, calc.hunk_idx.v, calc.line_num.v)

\* sum over i < h of (1 + len(hunk i)), counted as a set of (hunk, line) slots
HeaderAndContentBefore(hunks, h) ==
    Cardinality({ <<i, j>> \in (1..Len(hunks)) \X (0..MaxHunkLen + 1) :
                    i <= h /\ j <= hunks[i] })

\* C1: for valid (h, n) the calculator returns
\* (sum over i < h of (1 + len(hunk i))) + 1 + (n - 1); for hunks of 3 and 5
\* content lines and (h, n) = (1, 2) that is 6.
Thm_C1 ==
    CalledWithValidCoordinates =>
        /\ calc.result = PyInt(HeaderAndContentBefore(file_patch, calc.hunk_idx.v)
                               + 1 + (calc.line_num.v - 1))
        /\ (file_patch = <<3, 5>> /\ calc.hunk_idx.v = 1 /\ calc.line_num.v = 2)
              => calc.result = PyInt(6)

Wit_C1 ==
    /\ calc.called
    /\ file_patch = <<3, 5>>
    /\ calc.hunk_idx = IntV(1) /\ calc.line_num = IntV(2)
    /\ calc.result = PyInt(6)

\* the patch text of a file: every hunk header followed by its content lines
HunkText(hunks, i) ==
    << <<"@@", i, 0>> >> \o [j \in 1..hunks[i] |-> <<"line", i, j>>]

RECURSIVE PatchTextUpTo(_, _)
PatchTextUpTo(hunks, k) ==
    IF k = 0 THEN <<>> ELSE PatchTextUpTo(hunks, k - 1) \o HunkText(hunks, k)

PatchText(hunks) == PatchTextUpTo(hunks, Len(hunks))

\* 1-based index in the patch text of content line n of hunk h (0-based),
\* the first hunk header being line 1
PatchLineIndex(hunks, h, n) ==
    CHOOSE k \in 1..Len(PatchText(hunks)) : PatchText(hunks)[k] = <<"line", h + 1, n>>

\* C6 as stated: the returned position is the 1-based index of the targeted
\* line in the patch text, the first hunk header being line 1.
Orig_C6 ==
    CalledWithValidCoordinates =>
        calc.result = PyInt(PatchLineIndex(file_patch, calc.hunk_idx.v, calc.line_num.v))

\* C6 amended: the returned position is the number of patch lines below the
\* first hunk header down to the targeted line (the first hunk header is
\* line 0, the line just below it is position 1), later headers included.
Thm_C6 ==
    CalledWithValidCoordinates =>
        calc.result =
            PyInt(PatchLineIndex(file_patch, calc.hunk_idx.v, calc.line_num.v) - 1)

Wit_C6 ==
    /\ CalledWithValidCoordinates
    /\ calc.hunk_idx.v = 2
    /\ calc.line_num.v = 2
    /\ calc.result.kind = "int"
    /\ PatchText(file_patch)[calc.result.pos + 1] = <<"line", 3, 2>>

\* C7: the position is strictly increasing in the lexicographic order of
\* valid coordinates: every valid coordinate after the computed one, in the
\* same hunk with a larger line or in a later hunk with any line, has a
\* larger position, and every valid coordinate before it a smaller one.
Thm_C7 ==
    CalledWithValidCoordinates =>
        \A h2 \in 0..(Len(file_patch) - 1) : \A n2 \in 1..file_patch[h2 + 1] :
            LET other == improved_calculate_github_position(script, file_patch,
                                                            IntV(h2), IntV(n2))
                before == \/ calc.hunk_idx.v < h2
                          \/ calc.hunk_idx.v = h2 /\ calc.line_num.v < n2
                after ==  \/ h2 < calc.hunk_idx.v
                          \/ h2 = calc.hunk_idx.v /\ n2 < calc.line_num.v
            IN  /\ calc.result.kind = "int" /\ other.kind = "int"
                /\ before => calc.result.pos < other.pos
                /\ after => other.pos < calc.result.pos

Wit_C7 ==
    /\ CalledWithValidCoordinates
    /\ Len(file_patch) = 3
    /\ calc.hunk_idx.v = 1
    /\ calc.line_num.v = 2
    /\ file_patch[1] = MaxHunkLen /\ file_patch[2] >= 3

----------------------------------------------------------------------------
(* Properties of the comment assembler *)

HasKeysAndIntCoordinates(item) ==
    /\ RequiredKeys \subseteq DOMAIN item
    /\ item["hunkIndex"].t = "int"
    /\ item["lineNumber"].t = "int"

HunkOutOfBounds(item) ==
    /\ HasKeysAndIntCoordinates(item)
    /\ ~(0 <= item["hunkIndex"].v /\ item["hunkIndex"].v < Len(file_patch))

LineOutOfRange(item) ==
    /\ HasKeysAndIntCoordinates(item)
    /\ 0 <= item["hunkIndex"].v /\ item["hunkIndex"].v < Len(file_patch)
    /\ ~(1 <= item["lineNumber"].v
         /\ item["lineNumber"].v <= file_patch[item["hunkIndex"].v + 1])

IsDegraded(comment) ==
    /\ comment.position = 1
    /\ "invalidPosition" \in DOMAIN comment
    /\ comment.invalidPosition = TRUE
    /\ Head(comment.body) = DISCLAIMER

KeepsHunkInBounds(item) == ~HunkOutOfBounds(item)

\* C5: in both scripts, every item with an in-bounds hunkIndex and a
\* lineNumber outside [1, len(hunk)] yields exactly one comment record at
\* position 1 with invalidPosition = true and the disclaimer first in its
\* body; none is dropped.
Orig_C5 ==
    batch_pc = "returned" =>
        Cardinality({ i \in DOMAIN comments : IsDegraded(comments[i]) })
            = Cardinality({ i \in DOMAIN ai_reviews : LineOutOfRange(ai_reviews[i]) })

\* C8: for a hunkIndex < 0 or >= numHunks and any lineNumber the calculator
\* returns None, never a position, and process_batch_ai_reviews emits no
\* comment record for the item: the comments are those of the batch without
\* such items.
Thm_C8 ==
    batch_pc = "returned" =>
        /\ \A i \in DOMAIN ai_reviews :
              HunkOutOfBounds(ai_reviews[i]) =>
                 improved_calculate_github_position(script, file_patch,
                     ai_reviews[i]["hunkIndex"], ai_reviews[i]["lineNumber"]) = PyNone
        /\ comments = process_batch_ai_reviews(script, file_patch,
                          SelectSeq(ai_reviews, KeepsHunkInBounds))
        /\ Len(comments) <= Len(SelectSeq(ai_reviews, KeepsHunkInBounds))
        /\ (\A i \in DOMAIN ai_reviews : HunkOutOfBounds(ai_reviews[i])) => comments = <<>>

Wit_C8 ==
    /\ batch_pc = "returned"
    /\ Len(ai_reviews) = 2
    /\ HunkOutOfBounds(ai_reviews[1])
    /\ ai_reviews[1]["hunkIndex"].v = Len(file_patch)
    /\ ai_reviews[1]["lineNumber"].v = 1
    /\ ~HunkOutOfBounds(ai_reviews[2])
    /\ Len(comments) = 1
    /\ comments[1].position = 1 + ai_reviews[2]["lineNumber"].v - 1

\* the item has its four keys and integer coordinates that name a content
\* line of a hunk of the file
IsPositionable(item) ==
    /\ HasKeysAndIntCoordinates(item)
    /\ ValidCoordinates(file_patch, item["hunkIndex"].v, item["lineNumber"].v)

\* the item is one the claim calls bad
IsBadItem(item) ==
    \/ ~(RequiredKeys \subseteq DOMAIN item)
    \/ ~HasKeysAndIntCoordinates(item)
    \/ HunkOutOfBounds(item)

HasPosition(comment) == "invalidPosition" \notin DOMAIN comment

\* the comment record of a positionable item
RecordOf(item) ==
    [body |-> <<ConfidenceLabel(item["confidence"]), item["reviewComment"]>>,
     position |-> HeaderAndContentBefore(file_patch, item["hunkIndex"].v)
                  + item["lineNumber"].v,
     confidence_raw |-> item["confidence"]]

PositionableItems == SelectSeq(ai_reviews, IsPositionable)

\* C13: process_batch_ai_reviews returns for every batch; a bad item (missing
\* key, out-of-bounds hunkIndex, coordinates of the wrong type) adds no
\* comment, and the well-formed positionable items of the batch yield their
\* comment records, in order, whatever the other items are.
Thm_C13 ==
    batch_pc = "returned" =>
        /\ SelectSeq(comments, HasPosition)
              = [i \in DOMAIN PositionableItems |-> RecordOf(PositionableItems[i])]
        /\ Len(comments) <= Cardinality({ i \in DOMAIN ai_reviews : ~IsBadItem(ai_reviews[i]) })

\* an item without its confidence key is followed by a positionable one
Wit_C13 ==
    /\ batch_pc = "returned"
    /\ Len(ai_reviews) = 2
    /\ "confidence" \notin DOMAIN ai_reviews[1]
    /\ IsPositionable(ai_reviews[2])
    /\ comments = <<RecordOf(ai_reviews[2])>>

----------------------------------------------------------------------------
(* Properties of the key rotation *)

\* the fallback credentials the running script reads from the environment
ConfiguredFallbacks ==
    IF script = "pr"
    THEN environ \cap {AltKeyNames[i] : i \in DOMAIN AltKeyNames}
    ELSE environ \cap {FALLBACK}

ConfiguredCredentials == {PRIMARY} \cup ConfiguredFallbacks

\* primary, then the configured fallbacks in declaration order
PriorityOrder ==
    LET Configured(name) == name \in ConfiguredFallbacks
    IN  <<PRIMARY>> \o SelectSeq(IF script = "pr" THEN AltKeyNames ELSE <<FALLBACK>>,
                                 Configured)

\* the initial key state after one rate limit has been classified on the primary
PrimaryJustRateLimited ==
    /\ gemini_key_manager.current_key_name = PRIMARY
    /\ gemini_key_manager.current_key = <<"secret of", PRIMARY>>
    /\ gemini_key_manager.rate_limited_keys = {}
    /\ ~gemini_key_manager.all_keys_rate_limited
    /\ ~gemini_key_manager.used_fallback_key
    /\ gemini_key_manager.encountered_rate_limiting
    /\ key_call = [op |-> "is_rate_limit_error", ret |-> TRUE]

RotateKeyReturns == key_call'.op = "rotate_key"

ExhaustedSemantics ==
    /\ key_call = [op |-> "rotate_key", ret |-> FALSE]
    /\ gemini_key_manager.current_key_name = PRIMARY
    /\ gemini_key_manager.current_key = <<"secret of", PRIMARY>>
    /\ gemini_key_manager.rate_limited_keys = {}
    /\ gemini_key_manager.all_keys_rate_limited

\* C2: with exactly one fallback configured, one rate limit on the primary
\* followed by rotate_key leaves the fallback active (name and key value),
\* used_fallback_key true, and rotate_key returns True.
Thm_C2 ==
    [][ (PrimaryJustRateLimited /\ Cardinality(ConfiguredFallbacks) = 1 /\ RotateKeyReturns)
        => /\ key_call'.ret = TRUE
           /\ gemini_key_manager'.current_key_name \in ConfiguredFallbacks
           /\ gemini_key_manager'.current_key
                 = <<"secret of", gemini_key_manager'.current_key_name>>
           /\ gemini_key_manager'.used_fallback_key ]_vars

Wit_C2 ==
    /\ Cardinality(ConfiguredFallbacks) = 1
    /\ key_call = [op |-> "rotate_key", ret |-> TRUE]
    /\ gemini_key_manager.current_key_name \in ConfiguredFallbacks
    /\ gemini_key_manager.rate_limited_keys = {PRIMARY}
    /\ gemini_key_manager.used_fallback_key
    /\ ~gemini_key_manager.all_keys_rate_limited

\* C3: whenever rotate_key is called and every configured credential, the
\* current one included, is then rate-limited, rotate_key returns False, the
\* primary is active again, the rate-limited set is empty and
\* all_keys_rate_limited is true; with no fallback that is the first
\* rotation, with one fallback the rotation after the fallback was activated.
Thm_C3 ==
    [][ RotateKeyReturns =>
          /\ (ConfiguredCredentials \subseteq
                 gemini_key_manager.rate_limited_keys
                     \cup {gemini_key_manager.current_key_name})
             => ExhaustedSemantics'
          /\ (ConfiguredFallbacks = {} /\ gemini_key_manager.rate_limited_keys = {})
             => ExhaustedSemantics'
          /\ (Cardinality(ConfiguredFallbacks) = 1
              /\ gemini_key_manager.current_key_name \in ConfiguredFallbacks
              /\ gemini_key_manager.rate_limited_keys = {PRIMARY})
             => ExhaustedSemantics' ]_vars

Wit_C3 ==
    /\ Cardinality(ConfiguredFallbacks) = 1
    /\ ExhaustedSemantics
    /\ gemini_key_manager.encountered_rate_limiting

FirstNotIn(order, limited) ==
    order[CHOOSE i \in DOMAIN order :
            /\ order[i] \notin limited
            /\ \A j \in 1..(i - 1) : order[j] \in limited]

\* C9: in the multi-fallback manager every successful rotate_key activates
\* the first credential of the priority order (primary, then the configured
\* ALT keys in declaration order) that is not rate-limited, which is an ALT
\* key later in the order than the one left and not used before in the cycle.
Thm_C9 ==
    [][ (script = "pr" /\ RotateKeyReturns /\ key_call'.ret = TRUE) =>
          LET limited == gemini_key_manager.rate_limited_keys
                            \cup {gemini_key_manager.current_key_name}
              activated == gemini_key_manager'.current_key_name
          IN  /\ \E i \in DOMAIN PriorityOrder : PriorityOrder[i] \notin limited
              /\ activated = FirstNotIn(PriorityOrder, limited)
              /\ gemini_key_manager'.current_key = <<"secret of", activated>>
              /\ activated \in ConfiguredFallbacks
              /\ IndexOf(PriorityOrder, activated)
                    > IndexOf(PriorityOrder, gemini_key_manager.current_key_name)
              /\ activated \notin gemini_key_manager.rate_limited_keys ]_vars

Wit_C9 ==
    /\ script = "pr"
    /\ ConfiguredFallbacks = {"GEMINI_ALT_2", "GEMINI_ALT_4"}
    /\ key_call = [op |-> "rotate_key", ret |-> TRUE]
    /\ gemini_key_manager.current_key_name = "GEMINI_ALT_4"
    /\ gemini_key_manager.rate_limited_keys = {PRIMARY, "GEMINI_ALT_2"}

\* C24: in both scripts the three key-state flags are monotonic: once
\* encountered_rate_limiting, all_keys_rate_limited or used_fallback_key is
\* true, no is_rate_limit_error or rotate_key call makes it false again.
Orig_C24 ==
    [][ /\ gemini_key_manager.encountered_rate_limiting
           => gemini_key_manager'.encountered_rate_limiting
        /\ gemini_key_manager.all_keys_rate_limited
           => gemini_key_manager'.all_keys_rate_limited
        /\ gemini_key_manager.used_fallback_key
           => gemini_key_manager'.used_fallback_key ]_vars

\* the last rotation that changed the active credential reported exhaustion
AfterExhaustion ==
    /\ gemini_key_manager.all_keys_rate_limited
    /\ gemini_key_manager.current_key_name = PRIMARY

\* C26: after rotate_key has reported exhaustion, with at least one fallback
\* configured, the next rotate_key succeeds and activates the first fallback
\* again: credentials rate-limited in an earlier cycle are tried again, in
\* every later cycle.
Thm_C26 ==
    [][ (AfterExhaustion /\ ConfiguredFallbacks # {} /\ RotateKeyReturns) =>
          /\ key_call'.ret = TRUE
          /\ gemini_key_manager'.current_key_name = PriorityOrder[2]
          /\ gemini_key_manager'.current_key = <<"secret of", PriorityOrder[2]>>
          /\ gemini_key_manager'.rate_limited_keys = {PRIMARY} ]_vars

\* the first fallback is active again after a cycle that ended in exhaustion
Wit_C26 ==
    /\ ConfiguredFallbacks # {}
    /\ gemini_key_manager.all_keys_rate_limited
    /\ key_call = [op |-> "rotate_key", ret |-> TRUE]
    /\ gemini_key_manager.current_key_name = PriorityOrder[2]
    /\ gemini_key_manager.rate_limited_keys = {PRIMARY}

\* the credentials before the active one in rotation_order
PrecedingActive ==
    LET order == gemini_key_manager.rotation_order
    IN  { order[i] : i \in 1..(IndexOf(order, gemini_key_manager.current_key_name) - 1) }

\* C28: in the multi-fallback manager, in every state reachable by rotate_key
\* calls, the rate-limited set is exactly the set of credentials preceding
\* the active one in rotation_order (empty when the primary is active); a
\* successful rotation never activates the primary nor a credential already
\* used in the current cycle.
Thm_C28 ==
    /\ [](script = "pr" => gemini_key_manager.rate_limited_keys = PrecedingActive)
    /\ [][ (script = "pr" /\ RotateKeyReturns /\ key_call'.ret = TRUE) =>
              /\ gemini_key_manager'.current_key_name # PRIMARY
              /\ gemini_key_manager'.current_key_name
                    \notin gemini_key_manager.rate_limited_keys
                            \cup {gemini_key_manager.current_key_name} ]_vars

\* the third credential of the order is active in a cycle after an exhaustion
Wit_C28 ==
    /\ script = "pr"
    /\ Len(gemini_key_manager.rotation_order) >= 3
    /\ key_call = [op |-> "rotate_key", ret |-> TRUE]
    /\ gemini_key_manager.all_keys_rate_limited
    /\ gemini_key_manager.current_key_name = gemini_key_manager.rotation_order[3]
    /\ gemini_key_manager.rate_limited_keys
          = {PRIMARY, gemini_key_manager.rotation_order[2]}

----------------------------------------------------------------------------
(* Properties of the retry loop *)

\* the iterations the loop can still start, the one in progress included
AttemptsRemaining ==
    IF pc \in {"configure", "generate"} THEN max_retries - attempt + 1 ELSE 0

GenerateReturns == pc = "generate" /\ Len(requests') = Len(requests) + 1

\* C4: a rate-limit exception for which rotate_key succeeds does not consume
\* an attempt: the prompt is sent again with the newly active credential and
\* as many attempts remain as before the error, on every attempt, the last
\* one included.
Orig_C4 ==
    [][ (GenerateReturns /\ last_outcome' = "rate_limit_rotated") =>
          /\ pc' = "configure"
          /\ attempt' = attempt
          /\ AttemptsRemaining' = AttemptsRemaining ]_vars

ConsumingFailures == {"empty", "json_error", "bad_structure", "other_error"}

\* C10: an empty or blocked response, a malformed or unparseable structured
\* output (not valid JSON, or not an object with a reviews list) and a
\* non-rate-limit exception each consume exactly one attempt and the request
\* is retried while attempts remain; the empty result is returned for them
\* only once max_retries attempts are spent.
Orig_C10 ==
    [][ (GenerateReturns /\ last_outcome' \in ConsumingFailures) =>
          IF attempt < max_retries
          THEN pc' = "configure" /\ attempt' = attempt + 1
          ELSE pc' = "returned" /\ result' = <<>> ]_vars

\* the loop has made at most max_retries backend calls and slept between
\* them only, each time for a bounded duration
HardMaximum ==
    /\ Len(requests) <= max_retries
    /\ attempt <= max_retries
    /\ Len(sleeps) <= max_retries
    /\ \A i \in DOMAIN sleeps : sleeps[i] <= 2 * Pow2(max_retries) + 5 * max_retries

\* C16: get_ai_response_with_structured_output terminates for every finite
\* max_retries and every sequence of backend outcomes, also when every
\* credential is rate limited on every call: the loop makes at most
\* max_retries iterations, each sleep is finite, and the call returns.
Thm_C16 ==
    /\ []HardMaximum
    /\ <>(pc = "returned")

\* every call was answered with a rate-limit error while no other credential
\* was left, and the call has returned after MaxRetries attempts
Wit_C16 ==
    /\ pc = "returned"
    /\ environ = {}
    /\ max_retries = MaxRetries
    /\ Len(requests) = MaxRetries
    /\ Len(sleeps) = MaxRetries - 1
    /\ \A i \in DOMAIN sleeps : sleeps[i] = 5 * i
    /\ last_outcome = "rate_limit_exhausted"
    /\ gemini_key_manager.all_keys_rate_limited
    /\ result = <<>>

\* the outcomes of a backend call that are not a rate-limit classification:
\* a processed response, an empty or blocked one, a JSON decode error and an
\* exception without any of the markers
UnclassifiedOutcomes == {"output", "bad_structure", "empty", "json_error", "other_error"}

\* C25: the key-rotation state changes only on rate-limit classification: a
\* successful response, an empty or blocked response, a JSON decode error and
\* an exception whose text has none of "429", "quota", "rate limit",
\* "resourceexhausted" leave the active credential, the rate-limited set and
\* every flag unchanged.
Thm_C25 ==
    [][ /\ (GenerateReturns /\ last_outcome' \in UnclassifiedOutcomes)
            => gemini_key_manager' = gemini_key_manager
        /\ gemini_key_manager' # gemini_key_manager
            => /\ GenerateReturns
               /\ last_outcome' \in {"rate_limit_rotated", "rate_limit_exhausted"} ]_vars

\* a fallback is active with its flags set, and a call that raised an error
\* without marker has left all of it in place
Wit_C25 ==
    /\ last_outcome = "other_error"
    /\ key_call = [op |-> "is_rate_limit_error", ret |-> FALSE]
    /\ gemini_key_manager.current_key_name \in ConfiguredFallbacks
    /\ gemini_key_manager.rate_limited_keys = {PRIMARY}
    /\ gemini_key_manager.used_fallback_key
    /\ ~gemini_key_manager.all_keys_rate_limited

\* every generate_content invocation of the call ended in a rate-limit error
\* followed by a successful rotation
EveryCallRateLimitedAndRotated ==
    /\ max_retries >= 1
    /\ Len(requests) = max_retries
    /\ sleeps = <<>>
    /\ last_outcome = "rate_limit_rotated"
    /\ \A i, j \in DOMAIN requests : i # j => requests[i].api_key # requests[j].api_key

----------------------------------------------------------------------------
(* Properties of process_structured_output *)

\* the value can be coerced to an integer
Coercible(x) == x.t \in {"int", "numstr", "float"}

\* an item the claim calls well-formed: an object with the four keys whose
\* coordinates can be coerced
WellFormedItem(item) ==
    /\ item.t = "dict"
    /\ RequiredKeys \subseteq DOMAIN item.v
    /\ Coercible(item.v["hunkIndex"])
    /\ Coercible(item.v["lineNumber"])

\* what is kept of a well-formed item
KeptItem(item) ==
    [hunkIndex |-> IntV(item.v["hunkIndex"].v),
     lineNumber |-> IntV(item.v["lineNumber"].v),
     reviewComment |-> item.v["reviewComment"],
     confidence |-> IF item.v["confidence"] \in {"High", "Medium", "Low"}
                    THEN item.v["confidence"] ELSE "Low"]

ReviewsOfData == structured_data.v["reviews"].v

WellFormedIndexes == { i \in DOMAIN ReviewsOfData : WellFormedItem(ReviewsOfData[i]) }

\* the i-th well-formed item, in the order of the list
RECURSIVE NthWellFormed(_, _)
NthWellFormed(i, from) ==
    IF from \in WellFormedIndexes
    THEN IF i = 1 THEN from ELSE NthWellFormed(i - 1, from + 1)
    ELSE NthWellFormed(i, from + 1)

ExpectedReviews ==
    [ i \in 1..Cardinality(WellFormedIndexes) |-> KeptItem(ReviewsOfData[NthWellFormed(i, 1)]) ]

\* C11: for every payload {reviews: [...]} the function returns exactly the
\* well-formed items in their original order, dropping an item iff it is not
\* an object, lacks a required key or has a coordinate that cannot be coerced
\* to an integer, and keeping an item with an unknown confidence as Low; one
\* malformed item never removes another item.
Orig_C11 ==
    (output.called /\ HasValidStructure(structured_data)) =>
        /\ ~output.raised
        /\ output.value = ExpectedReviews

----------------------------------------------------------------------------
(* Properties of the previous-review round trip *)

PromptBuilt == prompt_pc = "built"

StoredOfPath ==
    { i \in DOMAIN review_data.review_comments :
        review_data.review_comments[i].file_path = prompt_path }

IsAddressedWithNote(comment) ==
    /\ InText(ADDRESSED, comment.comment_text_md.v)
    /\ InText(RESOLUTION, comment.comment_text_md.v)

Returned(comment) ==
    \E i \in DOMAIN previous_file_comments : previous_file_comments[i] = comment

RECURSIVE ExpectedPrevious(_)
ExpectedPrevious(i) ==
    IF i = 0 THEN <<>>
    ELSE ExpectedPrevious(i - 1)
         \o (IF /\ i \in StoredOfPath
                 /\ ~(script = "review"
                      /\ InText(IGNORED, review_data.review_comments[i].comment_text_md.v))
              THEN <<review_data.review_comments[i]>> ELSE <<>>)

\* the words after the first **Resolution**: that follows the first [ADDRESSED]
NoteAfterMarker(words) ==
    LET a == FirstIndexOf(ADDRESSED, words)
        r == CHOOSE j \in (a + 1)..Len(words) :
                /\ words[j] = RESOLUTION
                /\ \A k \in (a + 1)..(j - 1) : words[k] # RESOLUTION
    IN  SubSeq(words, r + 1, Len(words))

HasNoteAfterMarker(words) ==
    /\ InText(ADDRESSED, words)
    /\ \E j \in (FirstIndexOf(ADDRESSED, words) + 1)..Len(words) : words[j] = RESOLUTION

----------------------------------------------------------------------------
(* Properties of a run *)

Ended == main_pc \in EndStates

\* C15: on every path by which a run that has started main() ends, a review
\* record has been written during the run, in the worst case one recording
\* the error and an empty comment list.
Orig_C15 == Ended => review_file.written

\* the file analyze_code is at raises while its prompt is built
FileRaises ==
    /\ main_pc = "analyze"
    /\ file_index <= Len(files_list)
    /\ ~InvalidPathOrNoHunks(files_list[file_index])
    /\ create_batch_prompt(script, review_data, files_list[file_index].path).raised

ExhaustingOutcomes ==
    {"empty", "json_error", "other_error", "rate_limit_rotated", "rate_limit_exhausted"}

\* the retry loop of the current file ended because its attempts are spent
RetriesSpent ==
    /\ main_pc = "ai"
    /\ pc = "returned"
    /\ last_outcome \in ExhaustingOutcomes

\* C20: when the retries for one file are spent, whatever the failures were,
\* get_ai_response_with_structured_output has returned the empty list; the
\* file adds no comment and analyze_code goes on with the next file.
Thm_C20 ==
    /\ [](RetriesSpent => (result = <<>> /\ attempt = max_retries))
    /\ [][ RetriesSpent =>
              /\ main_pc' = "analyze"
              /\ file_index' = file_index + 1
              /\ files_list' = files_list
              /\ all_comments_for_pr' = all_comments_for_pr ]_vars

\* the request for the second file starts after the first file ended with
\* every credential rate limited on its last attempt
Wit_C20 ==
    /\ main_pc = "ai"
    /\ file_index = 2
    /\ pc = "configure"
    /\ attempt = 1
    /\ last_outcome = "rate_limit_exhausted"
    /\ all_comments_for_pr = <<>>

\* C18: for every backend call, the credential the client was configured
\* with is the credential in effect when generate_content is invoked:
\* nothing changes the active credential between Client.configure and the
\* invocation, whichever request rotated the keys before.
Thm_C18 ==
    /\ [](pc = "generate" => client_api_key = gemini_key_manager.current_key)
    /\ [][ GenerateReturns =>
              /\ requests'[Len(requests')].api_key = client_api_key
              /\ requests'[Len(requests')].api_key = gemini_key_manager.current_key ]_vars

\* the request of the second file is about to be invoked with the
\* credential a rotation during the first file made active
Wit_C18 ==
    /\ main_pc = "ai"
    /\ file_index = 2
    /\ pc = "generate"
    /\ attempt = 1
    /\ gemini_key_manager.current_key_name = AltKeyNames[1]
    /\ client_api_key = <<"secret of", AltKeyNames[1]>>

----------------------------------------------------------------------------
(* Properties of the throttle *)

----------------------------------------------------------------------------
(* Injectivity and range of the position calculator *)

\* the content lines of all hunks of the patch
TotalContentLines(hunks) ==
    Cardinality({ <<i, j>> \in (1..Len(hunks)) \X (1..MaxHunkLen + 1) : j <= hunks[i] })

\* the valid coordinates of the patch other than the ones of the last call
OtherValidCoordinates ==
    { c \in (0..(Len(file_patch) - 1)) \X (1..MaxHunkLen + 1) :
        /\ ValidCoordinates(file_patch, c[1], c[2])
        /\ c # <<calc.hunk_idx.v, calc.line_num.v>> }

\* C30: for a fixed file patch the calculator is injective on valid
\* coordinates, and every position p it returns satisfies
\* 1 <= p <= numHunks + totalContentLines - 1.
Thm_C30 ==
    /\ CalledWithValidCoordinates =>
          \A c \in OtherValidCoordinates :
              improved_calculate_github_position(script, file_patch, IntV(c[1]), IntV(c[2]))
                  # calc.result
    /\ (calc.called /\ calc.result.kind = "int") =>
          /\ 1 <= calc.result.pos
          /\ calc.result.pos <= Len(file_patch) + TotalContentLines(file_patch) - 1

\* the last content line of the last of several hunks: the upper end of the
\* range, with other valid coordinates to tell it from
Wit_C30 ==
    /\ CalledWithValidCoordinates
    /\ Len(file_patch) >= 2
    /\ calc.hunk_idx.v = Len(file_patch) - 1
    /\ calc.line_num.v = file_patch[Len(file_patch)]
    /\ calc.result = PyInt(Len(file_patch) + TotalContentLines(file_patch) - 1)
    /\ Cardinality(OtherValidCoordinates) >= 2

----------------------------------------------------------------------------
(* Properties of the record and of the ways a run ends *)

\* C21: the exhaustion flag of the persisted record (metadata rate_limited)
\* is true if and only if rotate_key reported exhaustion (returned False)
\* earlier in the same run.
Thm_C21 ==
    review_file.written => (review_file.rate_limited <=> exhaustion_warned)

\* the record of a run in which one file exhausted the credentials and
\* another one got its comment
Wit_C21 ==
    /\ main_pc = "returned"
    /\ review_file.written
    /\ review_file.rate_limited
    /\ exhaustion_warned
    /\ review_file.review_comments # <<>>

\* the process has ended with a non-zero exit status
ProcessExited == main_pc \in {"init_exit_1", "exit_1", "SystemExit"}

\* C23: the process exits non-zero, before any diff is fetched or any
\* backend call is made, when no source-control credential or no backend
\* credential is available at start, and nothing else terminates the run:
\* every other error is recovered without a process exit.
Orig_C23 ==
    /\ credentials \in {"no_github_credential", "no_gemini_key"}
         => /\ main_pc \in {"init", "init_exit_1"}
            /\ requests = <<>>
            /\ last_outcome = "none"
    /\ ProcessExited => credentials # "ok"

\* C22: when the diff text cannot be parsed the run is fail-closed: no
\* backend call is made, nothing is posted on the pull request, and the
\* record saved for the run has an empty comment list.
Thm_C22 ==
    main_pc = "caught_ValueError" =>
        /\ review_file.written
        /\ ~review_file.error
        /\ review_file.review_comments = <<>>
        /\ github_calls = <<>>
        /\ post_pc = "none"
        /\ requests = <<>>
        /\ last_outcome = "none"
        /\ pc = "idle"

\* a run with both credentials that ended on the diff that does not parse
Wit_C22 ==
    /\ credentials = "ok"
    /\ main_pc = "caught_ValueError"
    /\ review_file.written
    /\ review_file.review_comments = <<>>
    /\ files_list = <<>>

----------------------------------------------------------------------------
(* Properties of the posting *)

\* pr.create_review was called and failed
BulkPostFailed ==
    \E i \in DOMAIN github_calls :
        /\ github_calls[i].api = "create_review"
        /\ github_calls[i].outcome # "ok"

\* an individual issue comment was attempted for the comment
PostedIndividually(c) ==
    \E i \in DOMAIN github_calls :
        /\ github_calls[i].api = "create_issue_comment"
        /\ github_calls[i].comments = <<c>>

\* C27: whenever the bulk post pr.create_review fails, whatever the failure,
\* every validly structured comment is posted individually as an issue
\* comment, a failed individual post does not stop the remaining ones, and
\* the summary comment is posted afterwards.
Orig_C27 ==
    (post_pc = "done" /\ BulkPostFailed) =>
        /\ \A k \in DOMAIN valid_review_comments(comments_for_gh_review) :
              PostedIndividually(valid_review_comments(comments_for_gh_review)[k])
        /\ github_calls[Len(github_calls)].api = "create_issue_comment_summary"

====
